---- MODULE Spec2Model ----
(***************************************************************************)
(* Model of api.py: the match table df loaded once at import, the          *)
(* aggregators get_team_form and get_head_to_head, the scorer              *)
(* rule_based_prediction, the formatters summarize_form and summarize_h2h, *)
(* and the POST /predict handler.                                          *)
(*                                                                         *)
(* A DataFrame is a sequence of rows in file order; a row is a record of   *)
(* its CSV cells. Text is a sequence of lines, a line a sequence of        *)
(* tokens (literal pieces, names, numbers as rendered).                    *)
(***************************************************************************)
EXTENDS Integers, Sequences, FiniteSets, TLC

VARIABLES df, tie, req, call

vars == <<df, tie, req, call>>

----------------------------------------------------------------------------
(* Bounds and program constants *)

\* longest run of equal rows in a loaded table
MaxReps == 6
\* largest explicit window size passed to an aggregator besides the defaults
MaxN == 2

\* get_team_form(df, team, n=5)
FormWindow == 5
\* get_head_to_head(df, home, away, n=5)
H2HWindow == 5
\* .head(10) of the three display selections in predict
DisplayWindow == 10

\* team names that occur in the Team column, and one that only occurs as Opponent
Teams == {"A", "B"}
Others == {"C"}
Names == Teams \cup Others

\* an absent CSV cell (pandas NaN) of the xG column; real xG values are >= 0
NaN == -1

Dates == {1, 2}
Goals == {0, 1}
XGs == {NaN, 0, 1}

Min(a, b) == IF a < b THEN a ELSE b
Max(a, b) == IF a > b THEN a ELSE b

----------------------------------------------------------------------------
(* pandas primitives used by api.py *)

\* the columns of the loaded file
Columns == {"date", "Team", "Opponent", "Result", "GF", "GA", "xG"}

\* d[name]: a column, one cell per row
Col(d, name) == [i \in DOMAIN d |-> d[i][name]]

\* column == value, and the masks' & and |: one boolean per row
Eq(col, v) == [i \in DOMAIN col |-> col[i] = v]
And(m1, m2) == [i \in DOMAIN m1 |-> m1[i] /\ m2[i]]
Or(m1, m2) == [i \in DOMAIN m1 |-> m1[i] \/ m2[i]]

\* d[mask]: the rows where the mask is true, in their original order
Filter(d, mask) ==
    LET kept[i \in 0..Len(d)] ==
            IF i = 0 THEN <<>>
            ELSE IF mask[i] THEN Append(kept[i - 1], d[i]) ELSE kept[i - 1]
    IN  kept[Len(d)]

\* insert row r into a frame already ordered by date descending; among rows of
\* equal date r goes in front when the tie order keeps file order ("stable")
\* and behind them when it reverses it ("reverse")
RECURSIVE InsertDesc(_, _, _)
InsertDesc(r, d, t) ==
    IF d = <<>> THEN <<r>>
    ELSE IF \/ r.date > Head(d).date
            \/ (r.date = Head(d).date /\ t = "stable")
         THEN <<r>> \o d
         ELSE <<Head(d)>> \o InsertDesc(r, Tail(d), t)

\* the rows of d ordered by date descending
RECURSIVE SortDesc(_, _)
SortDesc(d, t) ==
    IF d = <<>> THEN <<>>
    ELSE InsertDesc(Head(d), SortDesc(Tail(d), t), t)

\* .sort_values(by='date', ascending=False): a new frame ordered by date,
\* latest first. The default sort kind is not stable: rows of equal date come
\* out in an order fixed by the build (tie), the same for the same input.
SortValues(d) == SortDesc(d, tie)

\* .head(n): the first n rows; for negative n all but the last |n| rows
HeadN(d, n) ==
    IF n >= 0 THEN SubSeq(d, 1, Min(n, Len(d)))
    ELSE SubSeq(d, 1, Max(Len(d) + n, 0))

\* (mask).sum(): the number of rows where the mask is true
Sum(mask) == Cardinality({i \in DOMAIN mask : mask[i]})

\* column.mean(): NaN cells are skipped; the mean of no cells is NaN. A mean
\* is kept exact as sum over cnt; cnt = 0 is NaN.
Mean(col) ==
    LET acc[i \in 0..Len(col)] ==
            IF i = 0 THEN 0
            ELSE acc[i - 1] + (IF col[i] = NaN THEN 0 ELSE col[i])
    IN  [sum |-> acc[Len(col)], cnt |-> Cardinality({i \in DOMAIN col : col[i] # NaN})]

\* the number 0 that get_team_form uses for a file without an xG column
Zero == [sum |-> 0, cnt |-> 1]

IsNaN(m) == m.cnt = 0

\* a comparison that reads the mean of no cells as 0
GtNaNAsZero(a, b) ==
    a.sum * (IF IsNaN(b) THEN 1 ELSE b.cnt) > b.sum * (IF IsNaN(a) THEN 1 ELSE a.cnt)

\* a > b on floats: false whenever either side is NaN
Gt(a, b) == /\ ~IsNaN(a)
            /\ ~IsNaN(b)
            /\ a.sum * b.cnt > b.sum * a.cnt

\* str(n) of a non-negative integer, as its decimal digits
Digit(n) ==
    CASE n = 0 -> "0" [] n = 1 -> "1" [] n = 2 -> "2" [] n = 3 -> "3" [] n = 4 -> "4"
      [] n = 5 -> "5" [] n = 6 -> "6" [] n = 7 -> "7" [] n = 8 -> "8" [] n = 9 -> "9"

RECURSIVE Str(_)
Str(n) == IF n < 10 THEN <<Digit(n)>> ELSE Str(n \div 10) \o <<Digit(n % 10)>>

\* format spec .2f: round to hundredths, ties to even; NaN prints as nan
Fmt2(m) ==
    IF IsNaN(m) THEN <<"nan">>
    ELSE LET q == (100 * m.sum) \div m.cnt
             r == (100 * m.sum) % m.cnt
             h == IF 2 * r > m.cnt \/ (2 * r = m.cnt /\ q % 2 = 1) THEN q + 1 ELSE q
         IN  Str(h \div 100) \o <<".", Digit((h % 100) \div 10), Digit(h % 10)>>

\* str.lower() on the names and words of the model
Lower(tok) ==
    CASE tok = "A" -> "a"
      [] tok = "B" -> "b"
      [] tok = "C" -> "c"
      [] tok = "Draw" -> "draw"
      [] OTHER -> tok

LowerLine(line) == [i \in DOMAIN line |-> Lower(line[i])]

----------------------------------------------------------------------------
(* Selections *)

\* df[df['Team'] == team]
TeamRows(d, team) == Filter(d, Eq(Col(d, "Team"), team))

\* a selection of the home side's rows of the pairing only
H2HRowsHomeOnly(d, home, away) ==
    Filter(d, And(Eq(Col(d, "Team"), home), Eq(Col(d, "Opponent"), away)))

\* df[((Team == home) & (Opponent == away)) | ((Team == away) & (Opponent == home))]
H2HRows(d, home, away) ==
    Filter(d, Or(And(Eq(Col(d, "Team"), home), Eq(Col(d, "Opponent"), away)),
                 And(Eq(Col(d, "Team"), away), Eq(Col(d, "Opponent"), home))))

----------------------------------------------------------------------------
(* Aggregators and scorer *)

\* the snapshot get_team_form builds from its selection
FormOf(recent) ==
    [wins   |-> Sum(Eq(Col(recent, "Result"), "W")),
     draws  |-> Sum(Eq(Col(recent, "Result"), "D")),
     losses |-> Sum(Eq(Col(recent, "Result"), "L")),
     avg_gf |-> Mean(Col(recent, "GF")),
     avg_ga |-> Mean(Col(recent, "GA")),
     avg_xg |-> IF "xG" \in Columns THEN Mean(Col(recent, "xG")) ELSE Zero]

\* a form taken from the first n rows in file order
get_team_form_unsorted(d, team, n) == FormOf(HeadN(TeamRows(d, team), n))

get_team_form(d, team, n) == FormOf(HeadN(SortValues(TeamRows(d, team)), n))

\* a head-to-head that counts a drawn match once, on the home side's row
get_head_to_head_draws_once(d, home, away, n) ==
    LET h2h == HeadN(SortValues(H2HRows(d, home, away)), n)
    IN  [home_wins |-> Sum(And(Eq(Col(h2h, "Team"), home), Eq(Col(h2h, "Result"), "W"))),
         away_wins |-> Sum(And(Eq(Col(h2h, "Team"), away), Eq(Col(h2h, "Result"), "W"))),
         draws     |-> Sum(And(Eq(Col(h2h, "Team"), home), Eq(Col(h2h, "Result"), "D")))]

get_head_to_head(d, home, away, n) ==
    LET h2h == HeadN(SortValues(H2HRows(d, home, away)), n)
    IN  [home_wins |-> Sum(And(Eq(Col(h2h, "Team"), home), Eq(Col(h2h, "Result"), "W"))),
         away_wins |-> Sum(And(Eq(Col(h2h, "Team"), away), Eq(Col(h2h, "Result"), "W"))),
         draws     |-> Sum(Eq(Col(h2h, "Result"), "D"))]

\* a home score that compares goals scored with goals scored
HomeScoreGoalsFor(home, away, h2h) ==
    home.wins
    + (IF Gt(home.avg_gf, away.avg_gf) THEN 1 ELSE 0)
    + (IF Gt(home.avg_xg, away.avg_xg) THEN 1 ELSE 0)
    + h2h.home_wins

HomeScore(home, away, h2h) ==
    home.wins
    + (IF Gt(home.avg_gf, away.avg_ga) THEN 1 ELSE 0)
    + (IF Gt(home.avg_xg, away.avg_xg) THEN 1 ELSE 0)
    + h2h.home_wins

\* an away score without the head-to-head wins
AwayScoreNoH2H(home, away, h2h) ==
    away.wins
    + (IF Gt(away.avg_gf, home.avg_ga) THEN 1 ELSE 0)
    + (IF Gt(away.avg_xg, home.avg_xg) THEN 1 ELSE 0)

AwayScore(home, away, h2h) ==
    away.wins
    + (IF Gt(away.avg_gf, home.avg_ga) THEN 1 ELSE 0)
    + (IF Gt(away.avg_xg, home.avg_xg) THEN 1 ELSE 0)
    + h2h.away_wins

Verdict(diff, home_team, away_team) ==
    IF diff >= 2 THEN <<home_team, " to win">>
    ELSE IF diff <= -2 THEN <<away_team, " to win">>
    ELSE <<"Draw">>

rule_based_prediction(home_team, away_team) ==
    LET home == get_team_form(df, home_team, FormWindow)
        away == get_team_form(df, away_team, FormWindow)
        h2h  == get_head_to_head(df, home_team, away_team, H2HWindow)
        home_score == HomeScore(home, away, h2h)
        away_score == AwayScore(home, away, h2h)
    IN  Verdict(home_score - away_score, home_team, away_team)

----------------------------------------------------------------------------
(* Formatters *)

summarize_form(matches, team_name) ==
    LET wins == Sum(Eq(Col(matches, "Result"), "W"))
        draws == Sum(Eq(Col(matches, "Result"), "D"))
        losses == Sum(Eq(Col(matches, "Result"), "L"))
        avg_goals_for == Mean(Col(matches, "GF"))
        avg_goals_against == Mean(Col(matches, "GA"))
    IN  <<
          <<team_name, " - Last ">> \o Str(Len(matches)) \o <<" Matches:">>,
          <<"- Wins: ">> \o Str(wins) \o <<", Draws: ">> \o Str(draws)
            \o <<", Losses: ">> \o Str(losses),
          <<"- Avg Goals Scored: ">> \o Fmt2(avg_goals_for)
            \o <<", Avg Goals Conceded: ">> \o Fmt2(avg_goals_against)
        >>

NoH2HText == << <<"No recent head-to-head match data available.">> >>

\* the two lines summarize_h2h renders for a selection with rows
H2HBlock(matches, home, away) ==
    LET total == Len(matches)
        home_wins == Sum(And(Eq(Col(matches, "Team"), home), Eq(Col(matches, "Result"), "W")))
        away_wins == Sum(And(Eq(Col(matches, "Team"), away), Eq(Col(matches, "Result"), "W")))
        draws == Sum(Eq(Col(matches, "Result"), "D"))
    IN  <<
          <<"Head-to-Head (", home, " vs ", away, ") - Last ">>
            \o Str(total) \o <<" Matches:">>,
          <<"- ", home, " Wins: ">> \o Str(home_wins)
            \o <<", ", away, " Wins: ">> \o Str(away_wins)
            \o <<", Draws: ">> \o Str(draws)
        >>

\* a summary that renders an empty selection like any other
summarize_h2h_zero_filled(matches, home, away) == H2HBlock(matches, home, away)

summarize_h2h(matches, home, away) ==
    IF matches = <<>> THEN NoH2HText ELSE H2HBlock(matches, home, away)

----------------------------------------------------------------------------
(* POST /predict *)

\* data.get(key): None when the key is missing
None == "<None>"
Get(data, key) == IF key \in DOMAIN data THEN data[key] ELSE None

\* not x, for x a string or None
Falsy(x) == x = None \/ x = ""

ErrorResponse == [error |-> <<"Missing team names.">>]

Discussion(home_team, away_team, home_form, away_form, h2h_form, prediction) ==
    <<home_team, " comes into this fixture with ">> \o home_form[2]
    \o <<". ", away_team, " shows ">> \o away_form[2]
    \o <<". ", "The head-to-head record suggests: ">> \o h2h_form[Len(h2h_form)]
    \o <<". ", "Considering form and past performance, this match is predicted to end in: ">>
    \o LowerLine(prediction) \o <<".">>

\* a rejection that looks at the home name only
RejectedHomeOnly(data) == Falsy(Get(data, "home_team"))

\* if not home_team or not away_team
Rejected(data) == Falsy(Get(data, "home_team")) \/ Falsy(Get(data, "away_team"))

\* the body of predict after the request's JSON has been read: the response
\* (a JSON object, here a record of its keys) and the helpers that ran
predict(data) ==
    LET home_team == Get(data, "home_team")
        away_team == Get(data, "away_team")
    IN  IF Rejected(data)
        THEN [resp |-> ErrorResponse, ran |-> {}]
        ELSE
        LET prediction == rule_based_prediction(home_team, away_team)
            home_form == summarize_form(
                HeadN(SortValues(TeamRows(df, home_team)), DisplayWindow), home_team)
            away_form == summarize_form(
                HeadN(SortValues(TeamRows(df, away_team)), DisplayWindow), away_team)
            h2h_matches == HeadN(SortValues(H2HRows(df, home_team, away_team)), DisplayWindow)
            h2h_form == summarize_h2h(h2h_matches, home_team, away_team)
        IN  [resp |-> [prediction |-> prediction,
                       stats |-> <<home_form, away_form, h2h_form>>,
                       discussion |-> Discussion(home_team, away_team, home_form,
                                                 away_form, h2h_form, prediction)],
             ran |-> {"rule_based_prediction", "summarize_form", "summarize_h2h"}]

----------------------------------------------------------------------------
(* Tables *)

Row(date, team, opp, res, gf, ga, xg) ==
    [date |-> date, Team |-> team, Opponent |-> opp, Result |-> res,
     GF |-> gf, GA |-> ga, xG |-> xg]

\* Result as the score gives it
ResultOf(gf, ga) == IF gf > ga THEN "W" ELSE IF gf < ga THEN "L" ELSE "D"

\* the rows of the checked tables: a team of Teams against another name, in a
\* match decided by at most one goal
Rows ==
    {r \in {Row(d, t, o, ResultOf(gf, ga), gf, ga, xg) :
                d \in Dates, t \in Teams, o \in Names,
                gf \in Goals, ga \in Goals, xg \in XGs} :
        r.Team # r.Opponent /\ r.GF + r.GA <= 1}

\* k copies of row r
Repeat(r, k) == [i \in 1..k |-> r]

\* the tables made of one run of equal rows, or of two runs of the same length
Tables(rows, reps) ==
    {<<>>} \cup {Repeat(a, k) : a \in rows, k \in reps}
           \cup {Repeat(a, k) \o Repeat(b, k) : a \in rows, b \in rows, k \in reps}

\* rows whose recorded xG equals the goals scored
PlainRows == {r \in Rows : r.xG = r.GF}

\* the rows of the server's tables: the matches of team A, as A's row or as
\* its opponent's mirrored row
ServerRows == {r \in PlainRows : "A" \in {r.Team, r.Opponent}}

\* the server's tables: at most one row, or a run of DisplayWindow equal rows
\* followed by one more row
ServerTables ==
    {<<>>} \cup {<<r>> : r \in ServerRows}
           \cup {Repeat(r, DisplayWindow) \o <<s>> : r \in ServerRows, s \in ServerRows}

TieOrders == {"stable", "reverse"}

Requests == {"r1", "r2"}
ReqNames == {"", "A", "B"}
Bodies ==
    UNION {[ks -> ReqNames] : ks \in SUBSET {"home_team", "away_team"}}

NoRequest == [pc |-> "idle", data |-> <<>>, resp |-> <<>>, ran |-> {}]
NoCall == [fn |-> "none", a |-> "", b |-> "", n |-> 0, out |-> <<>>]

----------------------------------------------------------------------------
(* The server *)

Init ==
    /\ df \in ServerTables
    /\ tie \in TieOrders
    /\ req = [r \in Requests |-> NoRequest]
    /\ call = NoCall

\* data = await request.json()
Receive(r, data) ==
    /\ req[r].pc = "idle"
    /\ req' = [req EXCEPT ![r] = [pc |-> "parsed", data |-> data, resp |-> <<>>, ran |-> {}]]
    /\ UNCHANGED <<df, tie, call>>

\* a handler that sorts the module's table in place
PredictSortsInPlace(r) ==
    /\ req[r].pc = "parsed"
    /\ LET result == predict(req[r].data)
       IN  req' = [req EXCEPT ![r] = [pc |-> "done", data |-> req[r].data,
                                      resp |-> result.resp, ran |-> result.ran]]
    /\ df' = SortValues(df)
    /\ UNCHANGED <<tie, call>>

\* a handler that keeps the sorted, cut selection of the home team's rows
\* in the module's table
PredictKeepsSelection(r) ==
    /\ req[r].pc = "parsed"
    /\ LET result == predict(req[r].data)
       IN  req' = [req EXCEPT ![r] = [pc |-> "done", data |-> req[r].data,
                                      resp |-> result.resp, ran |-> result.ran]]
    /\ df' = IF Rejected(req[r].data) THEN df
             ELSE HeadN(SortValues(TeamRows(df, Get(req[r].data, "home_team"))),
                        DisplayWindow)
    /\ UNCHANGED <<tie, call>>

\* the rest of the handler runs without suspension
Predict(r) ==
    /\ req[r].pc = "parsed"
    /\ LET result == predict(req[r].data)
       IN  req' = [req EXCEPT ![r] = [pc |-> "done", data |-> req[r].data,
                                      resp |-> result.resp, ran |-> result.ran]]
    /\ UNCHANGED <<df, tie, call>>

\* the response has been written; the connection is gone
Close(r) ==
    /\ req[r].pc = "done"
    /\ req' = [req EXCEPT ![r] = NoRequest]
    /\ UNCHANGED <<df, tie, call>>

Next ==
    \E r \in Requests :
        \/ \E data \in Bodies : Receive(r, data)
        \/ Predict(r)
        \/ Close(r)

Spec == Init /\ [][Next]_vars

----------------------------------------------------------------------------
(* The aggregators and the scorer called on their own: one call on one table *)

InitCalls ==
    /\ df \in Tables(Rows, 1..MaxReps)
    /\ tie \in TieOrders
    /\ req = [r \in Requests |-> NoRequest]
    /\ call = NoCall

\* the window sizes tried: the small ones and the default
WindowSizes == (0..MaxN) \cup {FormWindow}

CallForm(team, n) ==
    /\ call = NoCall
    /\ call' = [fn |-> "get_team_form", a |-> team, b |-> "", n |-> n,
                out |-> get_team_form(df, team, n)]
    /\ UNCHANGED <<df, tie, req>>

CallH2H(home, away, n) ==
    /\ call = NoCall
    /\ call' = [fn |-> "get_head_to_head", a |-> home, b |-> away, n |-> n,
                out |-> get_head_to_head(df, home, away, n)]
    /\ UNCHANGED <<df, tie, req>>

CallSummarizeH2H(home, away, n) ==
    /\ call = NoCall
    /\ call' = [fn |-> "summarize_h2h", a |-> home, b |-> away, n |-> n,
                out |-> summarize_h2h(HeadN(SortValues(H2HRows(df, home, away)), n),
                                      home, away)]
    /\ UNCHANGED <<df, tie, req>>

CallPrediction(home_team, away_team) ==
    /\ call = NoCall
    /\ call' = [fn |-> "rule_based_prediction", a |-> home_team, b |-> away_team, n |-> 0,
                out |-> rule_based_prediction(home_team, away_team)]
    /\ UNCHANGED <<df, tie, req>>

NextForm == \E team \in Names, n \in WindowSizes : CallForm(team, n)

NextH2H ==
    \E home \in Teams, away \in Names, n \in WindowSizes :
        \/ CallH2H(home, away, n)
        \/ CallSummarizeH2H(home, away, n)

NextScore ==
    \/ \E home_team \in Names, away_team \in Names : CallPrediction(home_team, away_team)
    \/ \E team \in Names : CallForm(team, FormWindow)

\* the scorer alone, each pairing in both orders
NextSides ==
    \E home_team \in Names, away_team \in Names : CallPrediction(home_team, away_team)

InitH2H ==
    /\ df \in Tables(PlainRows, 1..MaxReps)
    /\ tie \in TieOrders
    /\ req = [r \in Requests |-> NoRequest]
    /\ call = NoCall

\* the run lengths of the scorer's tables: below the window of 5, two runs
\* that straddle it, and one run longer than it
ScoreReps == {1, 3, MaxReps}

InitScore ==
    /\ df \in Tables(Rows, ScoreReps)
    /\ tie \in TieOrders
    /\ req = [r \in Requests |-> NoRequest]
    /\ call = NoCall

SpecForm == InitCalls /\ [][NextForm]_vars
SpecH2H == InitH2H /\ [][NextH2H]_vars
SpecScore == InitScore /\ [][NextScore]_vars
SpecSides == InitScore /\ [][NextSides]_vars

----------------------------------------------------------------------------
(* Claims *)

Card(S) == Cardinality(S)

\* the positions of df holding a row of team, and those holding a row of the
\* pairing a against b, whichever side is the row's Team
RowsOf(team) == {i \in DOMAIN df : df[i].Team = team}
RowsBetween(a, b) ==
    {i \in DOMAIN df : \/ (df[i].Team = a /\ df[i].Opponent = b)
                       \/ (df[i].Team = b /\ df[i].Opponent = a)}

\* the positions of S with the given result
With(S, res) == {i \in S : df[i].Result = res}

\* counts w, d, l are those of some k positions of S none of which is earlier
\* than a position of S left out: every position later than some date t, and
\* the rest chosen among those of date t
CountsOfLatest(S, k, w, d, l) ==
    IF k = 0 THEN w = 0 /\ d = 0 /\ l = 0
    ELSE \E t \in {df[i].date : i \in S} :
            LET above == {i \in S : df[i].date > t}
                at == {i \in S : df[i].date = t}
            IN  /\ Card(above) < k /\ k <= Card(above) + Card(at)
                /\ w + d + l = k
                /\ w - Card(With(above, "W")) \in 0..Card(With(at, "W"))
                /\ d - Card(With(above, "D")) \in 0..Card(With(at, "D"))
                /\ l - Card(With(above, "L")) \in 0..Card(With(at, "L"))

Bit(p) == IF p THEN 1 ELSE 0

Verdicts(a, b) == {<<a, " to win">>, <<b, " to win">>, <<"Draw">>}

\* C1: rule_based_prediction(home, away) scores each side with its wins, one
\* point per average comparison won and its head-to-head wins, all over
\* windows of 5, and answers "<home> to win" exactly when the difference is at
\* least 2, "<away> to win" exactly when it is at most -2, otherwise "Draw".
C1_VerdictFromScores ==
    call.fn = "rule_based_prediction" =>
        LET home == get_team_form(df, call.a, 5)
            away == get_team_form(df, call.b, 5)
            h2h  == get_head_to_head(df, call.a, call.b, 5)
            home_score == home.wins + Bit(Gt(home.avg_gf, away.avg_ga))
                          + Bit(Gt(home.avg_xg, away.avg_xg)) + h2h.home_wins
            away_score == away.wins + Bit(Gt(away.avg_gf, home.avg_ga))
                          + Bit(Gt(away.avg_xg, home.avg_xg)) + h2h.away_wins
            diff == home_score - away_score
        IN  /\ call.out \in Verdicts(call.a, call.b)
            /\ (diff >= 2) => call.out = <<call.a, " to win">>
            /\ (diff <= -2) => call.out = <<call.b, " to win">>
            /\ (diff > -2 /\ diff < 2) => call.out = <<"Draw">>
            /\ call.out = <<call.a, " to win">> => (diff >= 2 \/ call.a = call.b)
            /\ call.out = <<call.b, " to win">> => (diff <= -2 \/ call.a = call.b)
            /\ call.a = call.b => diff = 0

\* a home win scored on a window cut at 5, with both comparisons won
C1_Witness ==
    /\ call.fn = "rule_based_prediction"
    /\ call.a = "A" /\ call.b = "B"
    /\ Card(RowsOf("A")) > 5 /\ Card(RowsOf("B")) > 0
    /\ Gt(get_team_form(df, "A", 5).avg_gf, get_team_form(df, "B", 5).avg_ga)
    /\ Gt(get_team_form(df, "A", 5).avg_xg, get_team_form(df, "B", 5).avg_xg)
    /\ call.out = <<"A", " to win">>

C4_HeadToHeadSwaps ==
    call.fn = "get_head_to_head" =>
        LET rev == get_head_to_head(df, call.b, call.a, call.n)
        IN  /\ HeadN(SortValues(H2HRows(df, call.a, call.b)), call.n)
                = HeadN(SortValues(H2HRows(df, call.b, call.a)), call.n)
            /\ call.out.home_wins = rev.away_wins
            /\ call.out.away_wins = rev.home_wins
            /\ call.out.draws = rev.draws

\* a window cut short of the pairing's rows in which only the home side won
C4_Witness ==
    /\ call.fn = "get_head_to_head"
    /\ call.a # call.b
    /\ call.n > 0 /\ call.n < Card(RowsBetween(call.a, call.b))
    /\ call.out.home_wins > 0
    /\ call.out.away_wins = 0
    /\ \E i \in RowsBetween(call.a, call.b) : df[i].Team = call.b

\* C5: for a team without rows get_team_form returns zero counts and NaN
\* averages; in rule_based_prediction no comparison with such an average
\* scores, so the verdict is the one of the wins and head-to-head wins alone.
C5_AbsentTeamScoresNothing ==
    /\ (call.fn = "get_team_form" /\ RowsOf(call.a) = {}) =>
           /\ call.out.wins = 0 /\ call.out.draws = 0 /\ call.out.losses = 0
           /\ IsNaN(call.out.avg_gf) /\ IsNaN(call.out.avg_ga) /\ IsNaN(call.out.avg_xg)
    /\ (call.fn = "rule_based_prediction" /\ (RowsOf(call.a) = {} \/ RowsOf(call.b) = {})) =>
           LET home == get_team_form(df, call.a, 5)
               away == get_team_form(df, call.b, 5)
               h2h  == get_head_to_head(df, call.a, call.b, 5)
               diff == (home.wins + h2h.home_wins) - (away.wins + h2h.away_wins)
           IN  /\ call.out \in Verdicts(call.a, call.b)
               /\ call.out = (IF diff >= 2 THEN <<call.a, " to win">>
                              ELSE IF diff <= -2 THEN <<call.b, " to win">>
                              ELSE <<"Draw">>)

\* the absent team is away and the home team has scored goals, yet a draw
C5_Witness ==
    /\ call.fn = "rule_based_prediction"
    /\ RowsOf(call.b) = {}
    /\ RowsOf(call.a) # {}
    /\ get_team_form(df, call.a, 5).avg_gf.sum > 0
    /\ get_team_form(df, call.a, 5).avg_xg.sum > 0
    /\ call.out = <<"Draw">>

\* C9: draws counts every row of the window whose Result is a draw, whichever
\* team is the row's Team, so a drawn match whose two mirrored rows are in the
\* window counts twice; home_wins and away_wins count the rows won by that
\* side. summarize_h2h prints the same counts.
C9_DrawsCountEveryRow ==
    LET win == HeadN(SortValues(H2HRows(df, call.a, call.b)), call.n)
        I == DOMAIN win
        byHome == Card({i \in I : win[i].Team = call.a /\ win[i].Result = "D"})
        byAway == Card({i \in I : win[i].Team = call.b /\ win[i].Result = "D"})
        hw == Card({i \in I : win[i].Team = call.a /\ win[i].Result = "W"})
        aw == Card({i \in I : win[i].Team = call.b /\ win[i].Result = "W"})
        d == IF call.a = call.b THEN byHome ELSE byHome + byAway
    IN  /\ call.fn = "get_head_to_head" =>
               /\ call.out.draws = d
               /\ call.out.home_wins = hw
               /\ call.out.away_wins = aw
        /\ (call.fn = "summarize_h2h" /\ I # {}) =>
               call.out[2] = <<"- ", call.a, " Wins: ">> \o Str(hw)
                             \o <<", ", call.b, " Wins: ">> \o Str(aw)
                             \o <<", Draws: ">> \o Str(d)

\* the table is one drawn match as its two mirrored rows, both in the window
C9_Witness ==
    /\ call.fn = "get_head_to_head"
    /\ call.n >= 2
    /\ Len(df) = 2
    /\ df[1].Team = call.a /\ df[1].Opponent = call.b /\ df[1].Result = "D"
    /\ df[2].Team = call.b /\ df[2].Opponent = call.a /\ df[2].Result = "D"
    /\ df[1].date = df[2].date /\ df[1].GF = df[2].GA /\ df[1].GA = df[2].GF
    /\ call.out.draws = 2

\* C10: the verdict does not depend on which team is given as home:
\* rule_based_prediction(A, B) names A the winner exactly when
\* rule_based_prediction(B, A) does, is "Draw" exactly when that one is, and
\* rule_based_prediction(A, A) is "Draw".
C10_VerdictIgnoresSide ==
    call.fn = "rule_based_prediction" =>
        LET rev == rule_based_prediction(call.b, call.a)
        IN  /\ call.out = <<call.a, " to win">> <=> rev = <<call.a, " to win">>
            /\ call.out = <<call.b, " to win">> <=> rev = <<call.b, " to win">>
            /\ call.out = <<"Draw">> <=> rev = <<"Draw">>
            /\ call.a = call.b => call.out = <<"Draw">>

\* the away team wins on its head-to-head wins
C10_Witness ==
    /\ call.fn = "rule_based_prediction"
    /\ call.a # call.b
    /\ get_head_to_head(df, call.a, call.b, 5).away_wins >= 2
    /\ call.out = <<call.b, " to win">>

HomeOf(r) == Get(req[r].data, "home_team")
AwayOf(r) == Get(req[r].data, "away_team")
Done(r) == req[r].pc = "done"
Succeeded(r) == Done(r) /\ DOMAIN req[r].resp = {"prediction", "stats", "discussion"}

\* position i of df comes before position j in the handler's sorted selection
Before(i, j) ==
    \/ df[i].date > df[j].date
    \/ /\ df[i].date = df[j].date
       /\ \/ (tie = "stable" /\ i < j)
          \/ (tie = "reverse" /\ i > j)

\* the k first positions of S in that order
FirstOf(S, k) == {i \in S : Card({j \in S : Before(j, i)}) < k}

\* C2: a request whose home_team or away_team is missing or empty is answered
\* with exactly {"error": "Missing team names."} and no aggregator, scorer or
\* formatter runs for it; a request with both names is never answered so.
C2_MissingNamesRejected ==
    \A r \in Requests :
        Done(r) =>
            LET d == req[r].data
                missing(k) == k \notin DOMAIN d \/ d[k] = ""
            IN  IF missing("home_team") \/ missing("away_team")
                THEN /\ DOMAIN req[r].resp = {"error"}
                     /\ req[r].resp.error = <<"Missing team names.">>
                     /\ req[r].ran = {}
                ELSE /\ "error" \notin DOMAIN req[r].resp
                     /\ DOMAIN req[r].resp = {"prediction", "stats", "discussion"}

\* home_team is empty and away_team names a team with rows: rejected
C2_Witness ==
    \E r \in Requests :
        /\ Done(r)
        /\ DOMAIN req[r].data = {"home_team", "away_team"}
        /\ req[r].data["home_team"] = ""
        /\ RowsOf(req[r].data["away_team"]) # {}
        /\ req[r].resp = [error |-> <<"Missing team names.">>]

\* C6: stats[2] of a successful response is the no-data sentence exactly when
\* df has no row of the pairing; otherwise it is the two-line block with the
\* counts of the at most 10 latest rows of the pairing.
C6_HeadToHeadText ==
    \A r \in Requests :
        Succeeded(r) =>
            LET home == HomeOf(r)
                away == AwayOf(r)
                M == RowsBetween(home, away)
                W == FirstOf(M, 10)
                hw == Card({i \in W : df[i].Team = home /\ df[i].Result = "W"})
                aw == Card({i \in W : df[i].Team = away /\ df[i].Result = "W"})
                dr == Card({i \in W : df[i].Result = "D"})
                text == req[r].resp.stats[3]
            IN  /\ text = << <<"No recent head-to-head match data available.">> >> <=> M = {}
                /\ Card(W) <= 10
                /\ M # {} =>
                       text = << <<"Head-to-Head (", home, " vs ", away, ") - Last ">>
                                   \o Str(Card(W)) \o <<" Matches:">>,
                                 <<"- ", home, " Wins: ">> \o Str(hw)
                                   \o <<", ", away, " Wins: ">> \o Str(aw)
                                   \o <<", Draws: ">> \o Str(dr) >>

\* eleven rows of the pairing, the one left out of the block being its only draw
C6_Witness ==
    \E r \in Requests :
        /\ Succeeded(r)
        /\ Card(RowsBetween(HomeOf(r), AwayOf(r))) = 11
        /\ \E i \in RowsBetween(HomeOf(r), AwayOf(r)) : df[i].Result = "D"
        /\ req[r].resp.stats[3][1] =
               <<"Head-to-Head (", HomeOf(r), " vs ", AwayOf(r), ") - Last ",
                 "1", "0", " Matches:">>
        /\ req[r].resp.stats[3][2] =
               <<"- ", HomeOf(r), " Wins: ", "1", "0", ", ", AwayOf(r), " Wins: ", "0",
                 ", Draws: ", "0">>

\* C7: two requests with the same names are answered identically, whatever
\* was handled before, between or alongside them.
C7_SameRequestSameResponse ==
    \A r1 \in Requests, r2 \in Requests :
        (Done(r1) /\ Done(r2) /\ req[r1].data = req[r2].data) =>
            (req[r1].resp = req[r2].resp /\ req[r1].ran = req[r2].ran)

\* two answered requests for the same pairing, on a table whose eleven rows of
\* the home team share one date and differ in result
C7_Witness ==
    /\ Succeeded("r1") /\ Succeeded("r2")
    /\ req["r1"].data = req["r2"].data
    /\ Card(RowsOf(HomeOf("r1"))) = 11
    /\ \A i \in DOMAIN df : df[i].date = df[1].date
    /\ \E i \in DOMAIN df : df[i].Result # df[1].Result

\* C8: no step of any request changes the table.
C8_TableNeverModified == [][df' = df]_vars

\* a rejected and an answered request both done on a table with rows
C8_Witness ==
    /\ df # <<>>
    /\ \E r \in Requests : Succeeded(r)
    /\ \E r \in Requests : Done(r) /\ ~Succeeded(r)

====
